---- MODULE Spec2Model ----
(***************************************************************************)
(* Model of src/sunrise.py: the sunrise equation (calc) and the Julian     *)
(* date helpers (ts2j, j2ts).                                              *)
(*                                                                         *)
(* Number representation.  Python floats are modelled as fixed-point       *)
(* numbers with three decimals: an integer x stands for x / S.  Angles in  *)
(* degrees and in radians, sines and cosines, and day counts relative to   *)
(* J2000 are such integers.  Absolute instants do not fit one TLC integer, *)
(* so they carry their whole days apart:                                   *)
(*   a Unix timestamp is [d |-> days since 1970-01-01, s |-> second of     *)
(*   the day], standing for d * 86400 + s seconds;                         *)
(*   a Julian date is [d |-> whole days, t |-> thousandths of a day].      *)
(* Elevations are whole metres.  Every product and quotient rounds toward  *)
(* minus infinity, the way one float operation rounds once.                *)
(***************************************************************************)
EXTENDS Integers, Sequences, FiniteSets, TLC

S == 1000

(* Python's None, and a present value, for the optional slots of the      *)
(* tuple that calc returns.                                                *)
None == <<>>
Some(x) == <<x>>

(***************************************************************************)
(* Fixed-point arithmetic                                                  *)
(***************************************************************************)

Abs(x) == IF x < 0 THEN -x ELSE x

(* floor(a * num / den) for den > 0, without forming a * num.             *)
MulDiv(a, num, den) == (a \div den) * num + ((a % den) * num) \div den

(* a * b of two fixed-point numbers.                                       *)
Mul(a, b) == (a * b) \div S

(* a / b of two fixed-point numbers, b # 0; rounds toward minus infinity. *)
Div(a, b) == IF b > 0 THEN (a * S) \div b ELSE ((-a) * S) \div (-b)

(***************************************************************************)
(* math module                                                             *)
(***************************************************************************)

PI == 3142
HALF_PI == 1571
TWO_PI == 6284

(* math.radians: x * pi / 180.                                             *)
radians(deg) == MulDiv(deg, PI, 180 * S)

(* math.degrees: x * 180 / pi.                                             *)
degrees(rad) == MulDiv(rad, 180 * S, PI)

(* math.fmod: the remainder has the sign of the dividend (C fmod).         *)
fmod(x, m) == IF x >= 0 THEN x % m ELSE -((-x) % m)

(* math.ceil of a fixed-point number: an integer (not fixed-point).        *)
ceil(x) == -((-x) \div S)

(* Half wave of the sine on 0..PI (Bhaskara I):                            *)
(*   sin x = 16 x (pi - x) / (5 pi^2 - 4 x (pi - x)).                      *)
(* Nondecreasing on 0..HALF_PI, symmetric about HALF_PI, exact at 0,       *)
(* HALF_PI and PI.                                                         *)
SinHalfWave(x) ==
    LET p == (x * (PI - x)) \div 10
    IN  (4 * S * p) \div ((5 * PI * PI - 40 * p) \div 40)

(* math.sin of an angle in radians.                                        *)
sin(r) ==
    LET x == r % TWO_PI
    IN  IF x <= PI THEN SinHalfWave(x) ELSE -SinHalfWave(x - PI)

(* math.cos of an angle in radians.                                        *)
cos(r) == sin(r + HALF_PI)

(* The least angle a in lo..hi with cos(a) <= c; cos is nonincreasing on   *)
(* 0..PI and cos(hi) <= c.                                                 *)
RECURSIVE AcosSearch(_, _, _)
AcosSearch(c, lo, hi) ==
    IF lo >= hi THEN hi
    ELSE LET mid == (lo + hi) \div 2
         IN  IF cos(mid) <= c THEN AcosSearch(c, lo, mid)
                              ELSE AcosSearch(c, mid + 1, hi)

(* math.acos raises ValueError ("math domain error") outside [-1, 1].      *)
AcosDomain(c) == -S <= c /\ c <= S

(* math.acos on its domain: the inverse of cos on 0..PI.                   *)
acos(c) == AcosSearch(c, 0, PI)

(* math.asin on its domain.                                                *)
asin(s) == HALF_PI - acos(s)

(* Whether y * y <= e * S * S, y >= 0, without forming either product.     *)
SqrtLeq(y, e) ==
    LET a == y \div S
        b == y % S
        lowSq == 2 * a * b + (b * b) \div S
        whole == a * a + lowSq \div S
    IN  \/ whole < e
        \/ whole = e /\ lowSq % S = 0 /\ (b * b) % S = 0

(* The greatest y in lo..hi with y * y <= e * S * S.                       *)
RECURSIVE SqrtSearch(_, _, _)
SqrtSearch(e, lo, hi) ==
    IF lo >= hi THEN lo
    ELSE LET mid == (lo + hi + 1) \div 2
         IN  IF SqrtLeq(mid, e) THEN SqrtSearch(e, mid, hi)
                                ELSE SqrtSearch(e, lo, mid - 1)

(* math.sqrt raises ValueError ("math domain error") below zero.           *)
SqrtDomain(e) == e >= 0

(* math.sqrt of a whole number e >= 0, as a fixed-point number.            *)
sqrt(e) == SqrtSearch(e, 0, 31623 * S)

(***************************************************************************)
(* Instants                                                                *)
(***************************************************************************)

(* A timestamp of `days` days and `secs` seconds, with 0 <= s < 86400.     *)
Timestamp(days, secs) == [d |-> days + secs \div 86400, s |-> secs % 86400]

(* A Julian date of `days` days and `frac` thousandths, with 0 <= t < S.   *)
Julian(days, frac) == [d |-> days + frac \div S, t |-> frac % S]

(* j + x for a Julian date j and a fixed-point number of days x.           *)
JulianAdd(j, x) == Julian(j.d, j.t + x)

(* a - b of two Julian dates, as a fixed-point number of days.             *)
JulianSub(a, b) == (a.d - b.d) * S + (a.t - b.t)

(* a - b of two timestamps, in seconds.                                    *)
TimestampSub(a, b) == (a.d - b.d) * 86400 + (a.s - b.s)

TimestampLess(a, b) == a.d < b.d \/ (a.d = b.d /\ a.s < b.s)

(* j2ts with the Unix epoch taken at Julian day 2440587, half a day early. *)
j2tsWholeDayEpoch(j) == Timestamp(j.d - 2440587, (j.t * 86400) \div S)

(* j2ts, src/sunrise.py:19: (j - 2440587.5) * 86400.                       *)
j2ts(j) == Timestamp(j.d - 2440587, ((j.t - 500) * 86400) \div S)

(* ts2j, src/sunrise.py:23: ts / 86400.0 + 2440587.5.                      *)
ts2j(ts) == Julian(ts.d + 2440587, (ts.s * S) \div 86400 + 500)

(* datetime.fromtimestamp(ts, tz) raises ValueError when the local date    *)
(* falls outside the years 1..9999 (with tz None the first day of year 1   *)
(* is refused as well, the fold probe reaching 24 hours back).             *)
MinDay == -719161
MaxDay == 2932896

(* _ts2human, src/sunrise.py:15: TRUE when it returns, FALSE when          *)
(* datetime.fromtimestamp raises.                                          *)
_ts2human(ts) == MinDay <= ts.d /\ ts.d <= MaxDay

(* _j2human, src/sunrise.py:27: formats j2ts(j) through _ts2human.         *)
_j2human(j) == _ts2human(j2ts(j))

(***************************************************************************)
(* calc, src/sunrise.py:40-120                                             *)
(***************************************************************************)

(* Line 59: n = ceil(J_date - (2451545.0 + 0.0009) + 69.184 / 86400.0).    *)
(* 0.0009 and 69.184 / 86400 = 0.0008 both round to one thousandth.        *)
JulianDay(J_date) == ceil(JulianSub(J_date, Julian(2451545, 1)) + 1)

(* Line 63: J_ = n + 0.0009 - l_w / 360.0.                                 *)
MeanSolarTime(n, l_w) == n * S + 1 - l_w \div 360

(* Line 68: M_degrees = fmod(357.5291 + 0.98560028 * J_, 360), the factor  *)
(* taken as 0.9856 + 0.00000028.                                           *)
SolarMeanAnomaly(J_) ==
    fmod(357529 + MulDiv(J_, 9856, 10000) + MulDiv(J_, 7, 25000000), 360 * S)

(* Line 73: C_degrees = 1.9148 sin(M) + 0.02 sin(2M) + 0.0003 sin(3M).     *)
EquationOfCenter(M_radians) ==
      MulDiv(sin(M_radians), 19148, 10000)
    + MulDiv(sin(2 * M_radians), 2, 100)
    + MulDiv(sin(3 * M_radians), 3, 10000)

(* Line 89: L_degrees = fmod(M_degrees + C_degrees + 180.0 + 102.9372,     *)
(* 360).                                                                   *)
EclipticLongitude(M_degrees, C_degrees) ==
    fmod(M_degrees + C_degrees + 180000 + 102937, 360 * S)

(* Line 95: J_transit = 2451545.0 + J_ + 0.0053 sin(M) - 0.0069 sin(2L).   *)
SolarTransit(J_, M_radians, Lambda_radians) ==
    JulianAdd(Julian(2451545, 0),
              J_ + MulDiv(sin(M_radians), 53, 10000)
                 - MulDiv(sin(2 * Lambda_radians), 69, 10000))

(* Line 99: sin_d = sin(Lambda_radians) * sin(radians(23.4397)).           *)
SinDeclination(Lambda_radians) == Mul(sin(Lambda_radians), sin(radians(23440)))

(* Line 101: cos_d = cos(asin(sin_d)).                                     *)
CosDeclination(sin_d) == cos(asin(sin_d))

(* Line 104, the divisor cos(radians(f)) * cos_d.  No float is an exact    *)
(* zero of the cosine: cos(radians(90.0)) is 6.1e-17, and the product does *)
(* not underflow, so the division never raises ZeroDivisionError.  The     *)
(* least positive number stands for a divisor below one thousandth.        *)
HourAngleDivisor(f, cos_d) ==
    LET d == Mul(cos(radians(f)), cos_d)
    IN  IF d = 0 THEN 1 ELSE d

(* The dividend with the dip of the horizon added instead of subtracted.   *)
HourAngleDividendRaisedHorizon(f, sin_d, elevation) ==
      sin(radians(-833 + MulDiv(sqrt(elevation), 2076, 60 * S)))
    - Mul(sin(radians(f)), sin_d)

(* Line 104, the dividend, elevation being in the domain of sqrt:          *)
(* sin(radians(-0.833 - 2.076 * sqrt(elevation) / 60.0))                   *)
(*   - sin(radians(f)) * sin_d.                                            *)
HourAngleDividend(f, sin_d, elevation) ==
      sin(radians(-833 - MulDiv(sqrt(elevation), 2076, 60 * S)))
    - Mul(sin(radians(f)), sin_d)

(* The flag read the other way round: true when the sun never sets.        *)
PolarFlagNeverSets(some_cos) == some_cos < 0

(* Line 108: the third slot of the tuple returned when acos raises.        *)
PolarFlag(some_cos) == some_cos > 0

(* Line 108: return None, None, some_cos > 0.0.                            *)
PolarReturn(some_cos) == <<None, None, Some(PolarFlag(some_cos))>>

(* Sunrise with the sign of the hour angle slipped.                        *)
SunriseAfterTransit(J_transit, w0_degrees) ==
    JulianAdd(J_transit, w0_degrees \div 360)

(* Line 113: j_rise = J_transit - w0_degrees / 360.                        *)
Sunrise(J_transit, w0_degrees) == JulianAdd(J_transit, -(w0_degrees \div 360))

(* Sunset with the hour angle divided by a half turn.                      *)
SunsetHalfTurn(J_transit, w0_degrees) ==
    JulianAdd(J_transit, w0_degrees \div 180)

(* Line 114: j_set = J_transit + w0_degrees / 360.                         *)
Sunset(J_transit, w0_degrees) == JulianAdd(J_transit, w0_degrees \div 360)

(* The pair returned together with a flag.                                 *)
PairReturnWithFlag(j_rise, j_set) ==
    <<Some(j2ts(j_rise)), Some(j2ts(j_set)), Some(FALSE)>>

(* Line 120: return j2ts(j_rise), j2ts(j_set), None.                       *)
PairReturn(j_rise, j_set) == <<Some(j2ts(j_rise)), Some(j2ts(j_set)), None>>

(* The frame of a call that has not bound anything yet.  `line` is the     *)
(* line where the call ended, `exc` the exception it raised ("" when it    *)
(* returned) and `ret` the tuple it returned.                              *)
NoFrame ==
    [n |-> 0, J_ |-> 0, M_degrees |-> 0, L_degrees |-> 0,
     J_transit |-> Julian(0, 0), some_cos |-> 0, w0_degrees |-> 0,
     j_rise |-> Julian(0, 0), j_set |-> Julian(0, 0),
     line |-> 0, exc |-> "", ret |-> None]

(* calc(current_timestamp, f, l_w, elevation): its locals and its outcome. *)
(* f and l_w are fixed-point degrees, elevation is in whole metres.  The   *)
(* f-strings of log.debug are evaluated whatever the log level, so the     *)
(* formatting helpers run, and can raise, on every call.                   *)
calc(current_timestamp, f, l_w, elevation) ==
    LET J_date == ts2j(current_timestamp)
        n == JulianDay(J_date)
        J_ == MeanSolarTime(n, l_w)
        M_degrees == SolarMeanAnomaly(J_)
        M_radians == radians(M_degrees)
        C_degrees == EquationOfCenter(M_radians)
        L_degrees == EclipticLongitude(M_degrees, C_degrees)
        Lambda_radians == radians(L_degrees)
        J_transit == SolarTransit(J_, M_radians, Lambda_radians)
        sin_d == SinDeclination(Lambda_radians)
        cos_d == CosDeclination(sin_d)
        some_cos == Div(HourAngleDividend(f, sin_d, elevation),
                        HourAngleDivisor(f, cos_d))
        w0_radians == acos(some_cos)
        w0_degrees == degrees(w0_radians)
        j_rise == Sunrise(J_transit, w0_degrees)
        j_set == Sunset(J_transit, w0_degrees)
        at96 == [NoFrame EXCEPT !.n = n, !.J_ = J_, !.M_degrees = M_degrees,
                                !.L_degrees = L_degrees,
                                !.J_transit = J_transit]
        at104 == [at96 EXCEPT !.some_cos = some_cos]
        at109 == [at104 EXCEPT !.w0_degrees = w0_degrees,
                               !.j_rise = j_rise, !.j_set = j_set]
    IN  IF ~_ts2human(current_timestamp)
          THEN [NoFrame EXCEPT !.line = 51, !.exc = "ValueError"]
        ELSE IF ~_j2human(J_transit)
          THEN [at96 EXCEPT !.line = 96, !.exc = "ValueError"]
        ELSE IF ~SqrtDomain(elevation)
          THEN [at96 EXCEPT !.line = 104, !.exc = "ValueError"]
        ELSE IF ~AcosDomain(some_cos)
          THEN [at104 EXCEPT !.line = 108,
                             !.ret = PolarReturn(some_cos)]
        ELSE IF ~_j2human(j_rise)
          THEN [at109 EXCEPT !.line = 116, !.exc = "ValueError"]
        ELSE IF ~_j2human(j_set)
          THEN [at109 EXCEPT !.line = 117, !.exc = "ValueError"]
        ELSE [at109 EXCEPT !.line = 120, !.ret = PairReturn(j_rise, j_set)]

(***************************************************************************)
(* Callers: one call of calc, ts2j or j2ts on arguments drawn from the     *)
(* sets below.                                                             *)
(***************************************************************************)

NDays == 8
NSecs == 3
NLats == 4
NLons == 2
NElevs == 3

(* Six years and a quarter, in days.                                       *)
DayStep == 6 * 365 + 91

(* Days from 1970 on, a little over six years apart so that the seasons    *)
(* rotate (J2000 is day 10957), and the last day that datetime refuses     *)
(* with the first one that it accepts.                                     *)
Days == {k * DayStep : k \in 0..NDays} \cup {MinDay - 1, MinDay}

SecondsOfDay == {k * (86400 \div NSecs) : k \in 0..(NSecs - 1)}

Timestamps == {Timestamp(d, s) : d \in Days, s \in SecondsOfDay}

(* Latitudes from pole to pole, in fixed-point degrees, with that of the   *)
(* driver (main) and one where the sun grazes the horizon at noon on       *)
(* 1970-01-01.                                                             *)
Latitudes ==
    {-90 * S + k * ((180 * S) \div NLats) : k \in 0..NLats}
        \cup {90 * S, 43268, 67830}

(* Longitudes, west positive, in fixed-point degrees.                      *)
Longitudes ==
    {-180 * S + k * ((360 * S) \div NLons) : k \in 0..NLons} \cup {-79775}

(* Elevations in metres: sea level, 74 m times the fourth powers (up to    *)
(* 5994 m for NElevs = 3), one below sea level, and one so high that the   *)
(* dip of the horizon exceeds a right angle.                               *)
Elevations ==
    {74 * k * k * k * k : k \in 0..NElevs} \cup {-1, 100000000}

Julians == {ts2j(t) : t \in Timestamps} \cup {Julian(2451545, 0)}

VARIABLES op, current_timestamp, f, l_w, elevation, frame, ts, j

vars == <<op, current_timestamp, f, l_w, elevation, frame, ts, j>>

NoArgs ==
    /\ current_timestamp = Timestamp(0, 0)
    /\ f = 0
    /\ l_w = 0
    /\ elevation = 0

Init ==
    /\ frame = NoFrame
    /\ \/ /\ op = "call calc"
          /\ current_timestamp \in Timestamps
          /\ f \in Latitudes
          /\ l_w \in Longitudes
          /\ elevation \in Elevations
          /\ ts = Timestamp(0, 0)
          /\ j = Julian(0, 0)
       \/ /\ op = "call ts2j"
          /\ NoArgs
          /\ ts \in Timestamps
          /\ j = Julian(0, 0)
       \/ /\ op = "call j2ts"
          /\ NoArgs
          /\ ts = Timestamp(0, 0)
          /\ j \in Julians

(* A call of calc, from its first line to its return or its raise.         *)
Calc ==
    /\ op = "call calc"
    /\ op' = "calc"
    /\ frame' = calc(current_timestamp, f, l_w, elevation)
    /\ UNCHANGED <<current_timestamp, f, l_w, elevation, ts, j>>

(* A call j = ts2j(ts).                                                    *)
Ts2j ==
    /\ op = "call ts2j"
    /\ op' = "ts2j"
    /\ j' = ts2j(ts)
    /\ UNCHANGED <<current_timestamp, f, l_w, elevation, frame, ts>>

(* A call ts = j2ts(j).                                                    *)
J2ts ==
    /\ op = "call j2ts"
    /\ op' = "j2ts"
    /\ ts' = j2ts(j)
    /\ UNCHANGED <<current_timestamp, f, l_w, elevation, frame, j>>

Next == Calc \/ Ts2j \/ J2ts

Spec == Init /\ [][Next]_vars

(***************************************************************************)
(* Properties                                                              *)
(***************************************************************************)

(* The call of calc is over.                                               *)
Called == op = "calc"

(* The call of calc returned a tuple.                                      *)
Returned == Called /\ frame.exc = ""

(* The call of calc returned the pair of instants.                         *)
Paired == Called /\ frame.line = 120

(* The call of calc returned the polar flag.                               *)
Polar == Called /\ frame.line = 108

(* The call of calc evaluated some_cos (it reached line 105).              *)
HourAngleReached == Called /\ frame.line \in {108, 116, 117, 120}

(* What the caller observes of a call: the exception or the tuple.         *)
Outcome(fr) == [exc |-> fr.exc, ret |-> fr.ret]

sunrise(fr) == fr.ret[1][1]
sunset(fr) == fr.ret[2][1]

(* sunset - sunrise of a paired result, in seconds.                        *)
DayLength(fr) == TimestampSub(sunset(fr), sunrise(fr))

(* The arguments are in the domain that the interface declares.            *)
ValidArgs == -90 * S <= f /\ f <= 90 * S /\ elevation >= 0

C2_NeverRaises == Called /\ ValidArgs => frame.exc = ""

(* C3 as stated: with an elevation < 0 calc either rejects the call as     *)
(* InvalidElevation or behaves as with elevation 0.                        *)
C3_NegativeElevationDecided ==
    Called /\ elevation < 0 =>
        \/ frame.exc = "InvalidElevation"
        \/ Outcome(frame) = Outcome(calc(current_timestamp, f, l_w, 0))

(* C4 as stated: whenever calc returns the pair, sunrise < sunset.         *)
C4_SunriseBeforeSunset ==
    Paired => TimestampLess(sunrise(frame), sunset(frame))

(* C4 amended: whenever calc returns the pair, sunrise <= sunset; they are *)
(* the same instant when cosArg is exactly 1 (w0 = 0) and sunrise < sunset *)
(* when cosArg < 1.                                                        *)
C4_SunriseNotAfterSunset ==
    Paired =>
        /\ ~TimestampLess(sunset(frame), sunrise(frame))
        /\ frame.some_cos = S => sunrise(frame) = sunset(frame)
        /\ frame.some_cos < S => TimestampLess(sunrise(frame), sunset(frame))

(* C4 witness: a paired result with cosArg exactly 1: the hour angle is 0  *)
(* and sunrise and sunset coincide.                                        *)
C4_Witness ==
    /\ Paired
    /\ frame.some_cos = S /\ frame.w0_degrees = 0
    /\ sunrise(frame) = sunset(frame)

(* C5: a tuple returned by calc is either (instant, instant, None) or      *)
(* (None, None, boolean), never a mixture.                                 *)
C5_ReturnShape ==
    Returned =>
        /\ Len(frame.ret) = 3
        /\ \/ /\ frame.ret[1] # None /\ frame.ret[2] # None
              /\ frame.ret[3] = None
           \/ /\ frame.ret[1] = None /\ frame.ret[2] = None
              /\ frame.ret[3] \in {Some(TRUE), Some(FALSE)}

(* C5 witness: a call that returned the pair, with no flag.                *)
C5_Witness ==
    /\ Paired
    /\ frame.ret[3] = None
    /\ TimestampLess(sunrise(frame), sunset(frame))

(* The resolution of a Julian date, in seconds (rounded up).               *)
JulianResolution == 86400 \div S + 1

(* C6: j2ts undoes ts2j to within the resolution of a Julian date, and     *)
(* ts2j undoes j2ts to within one unit of the Julian date.                 *)
C6_RoundTrip ==
    /\ op = "ts2j" => Abs(TimestampSub(j2ts(j), ts)) <= JulianResolution
    /\ op = "j2ts" => Abs(JulianSub(ts2j(ts), j)) <= 1

(* C6 witness: ts2j applied to an instant in the afternoon of 1 Jan 1970.  *)
C6_Witness ==
    /\ op = "ts2j"
    /\ ts = Timestamp(0, (NSecs - 1) * (86400 \div NSecs))
    /\ j.d = 2440588

(* The greatest depression of the horizon that the correction of line 104  *)
(* can express: at 90 degrees the sine turns back.                         *)
DipInRange(e) == 833 + MulDiv(sqrt(e), 2076, 60 * S) <= 90 * S

(* C7 as stated: for elevations 0 <= e1 <= e2 at which calc returns the    *)
(* pair, the day is at least as long at e2 as at e1.                       *)
C7_DayLengthMonotone ==
    Paired /\ elevation >= 0 =>
        \A e2 \in Elevations :
            LET fr2 == calc(current_timestamp, f, l_w, e2)
            IN  e2 >= elevation /\ fr2.line = 120 =>
                    DayLength(fr2) >= DayLength(frame)

(* C7 amended: the same for latitudes in [-90, 90] and elevations up to    *)
(* the one where 0.833 + 2.076 sqrt(e) / 60 reaches 90 degrees (about      *)
(* 6.6e6 m).                                                               *)
C7_DayLengthMonotoneInRange ==
    Paired /\ ValidArgs =>
        \A e2 \in Elevations :
            LET fr2 == calc(current_timestamp, f, l_w, e2)
            IN  e2 >= elevation /\ DipInRange(e2) /\ fr2.line = 120 =>
                    DayLength(fr2) >= DayLength(frame)

(* C7 witness: a paired result at sea level that 5994 m of elevation       *)
(* lengthens.                                                              *)
C7_Witness ==
    /\ Paired
    /\ elevation = 0
    /\ LET fr2 == calc(current_timestamp, f, l_w, 74 * 81)
       IN  fr2.line = 120 /\ DayLength(fr2) > DayLength(frame)

(* C8: in a paired result sunset - transit = transit - sunrise = w0 / 360  *)
(* days; in the timestamps returned, to within the one second that each    *)
(* conversion rounds.                                                      *)
C8_SymmetricAboutTransit ==
    Paired =>
        /\ JulianSub(frame.j_set, frame.J_transit) = frame.w0_degrees \div 360
        /\ JulianSub(frame.J_transit, frame.j_rise) = frame.w0_degrees \div 360
        /\ Abs(TimestampSub(sunset(frame), j2ts(frame.J_transit))
               - TimestampSub(j2ts(frame.J_transit), sunrise(frame))) <= 1

(* C8 witness: a paired result with an hour angle of more than a quarter   *)
(* turn (a day longer than twelve hours).                                  *)
C8_Witness ==
    /\ Paired
    /\ frame.w0_degrees > 90 * S
    /\ JulianSub(frame.j_set, frame.j_rise) > S \div 2

(* C9 as stated: the mean anomaly M and the ecliptic longitude L that calc *)
(* computes lie in [0, 360).                                               *)
C9_AnglesNormalised ==
    Called /\ frame.line # 51 =>
        /\ 0 <= frame.M_degrees /\ frame.M_degrees < 360 * S
        /\ 0 <= frame.L_degrees /\ frame.L_degrees < 360 * S

(* C10 as stated: two timestamps with the same day number n, the other     *)
(* arguments being the same, have the same outcome.                        *)
C10_DependsOnDayNumberOnly ==
    Called =>
        \A t2 \in Timestamps :
            JulianDay(ts2j(t2)) = JulianDay(ts2j(current_timestamp)) =>
                Outcome(calc(t2, f, l_w, elevation)) = Outcome(frame)

====
